---- MODULE Spec2Model ----
(***************************************************************************)
(* Model of the optimisation engine of the Profit Mix Optimizer            *)
(* (src/app.py, functions _blend, _deviation, _svc, _score and compute).   *)
(*                                                                         *)
(* One behaviour of the model is one call of compute: Init fixes the       *)
(* arguments of the call, and the actions are the successive blocks of the *)
(* function body (size check, enumeration for n = 1 / 2 / 3, empty check   *)
(* and sort, strict pass, relaxed pass, final fallback and return).        *)
(*                                                                         *)
(* Numbers.  The code computes in floating point; the model computes the   *)
(* same expressions exactly, in fixed point:                               *)
(*   - a weight is a whole number of hundredths (1.0 is WeightUnit = 100); *)
(*   - equity, abroad, fx, illiquid of a fund and of the target are whole  *)
(*     percents, a fund's sharpe is a whole number of tenths;              *)
(*   - hence vals and deviation are scaled by 100, vals.sharpe by 1000,    *)
(*     svc by 100 and score by 10000.                                      *)
(* The tolerance 1e-9 of the n == 3 grid and round(.., 3) absorb rounding  *)
(* only, so they are exact comparisons here.  Two scores that are equal in *)
(* exact arithmetic are equal in the model; in the code their rounding     *)
(* errors may differ and order them either way.                            *)
(***************************************************************************)
EXTENDS Integers, Sequences, FiniteSets, TLC

VARIABLES
    funds,           \* argument: the catalog, a sequence of Fund records
    target,          \* argument: target profile
    target_weights,  \* argument: importance multiplier per metric
    sharpe_w,        \* argument
    service_w,       \* argument
    svc_map,         \* argument: provider -> service score
    dflt_svc,        \* argument: service score of an unmapped provider
    same_prov_only,  \* argument
    n,               \* argument: 1, 2 or 3
    pc,              \* position in the body of compute
    candidates,      \* local: the candidate pool
    chosen,          \* local
    used_prov,       \* local
    used_names,      \* local
    result,          \* first component of the returned tuple
    message          \* second component of the returned tuple

args == <<funds, target, target_weights, sharpe_w, service_w, svc_map,
          dflt_svc, same_prov_only, n>>
locals == <<candidates, chosen, used_prov, used_names>>
returned == <<result, message>>
vars == <<args, pc, locals, returned>>

----------------------------------------------------------------------------
(* Bounds and program constants *)

MaxFunds == 6

WeightUnit == 100

GridPoints2 == 101

GridStep3 == 5

\* fault: one pick too many
PickLimitOneMore == 3 + 1

PickLimit == 3

----------------------------------------------------------------------------
(* Data model *)

Fund(sheet, name, provider, equity, abroad, fx, illiquid, sharpe) ==
    [sheet |-> sheet, name |-> name, provider |-> provider,
     equity |-> equity, abroad |-> abroad, fx |-> fx,
     illiquid |-> illiquid, sharpe |-> sharpe]

Abs(x) == IF x < 0 THEN -x ELSE x

Min(a, b) == IF a < b THEN a ELSE b

Max(a, b) == IF a > b THEN a ELSE b

----------------------------------------------------------------------------
(* _blend, _deviation, _svc, _score *)

\* sum(w * f.key for w, f in zip(ws, fs)), from position i on
RECURSIVE Dot(_, _, _, _)
Dot(ws, fs, key, i) ==
    IF i > Len(ws) \/ i > Len(fs) THEN 0
    ELSE ws[i] * fs[i][key] + Dot(ws, fs, key, i + 1)

Blend(fs, ws) ==
    [equity   |-> Dot(ws, fs, "equity", 1),
     abroad   |-> Dot(ws, fs, "abroad", 1),
     fx       |-> Dot(ws, fs, "fx", 1),
     illiquid |-> Dot(ws, fs, "illiquid", 1),
     sharpe   |-> Dot(ws, fs, "sharpe", 1)]

\* fault: the differences are summed with their sign (abs left out)
DeviationSigned(v, t, tw) ==
      tw.equity   * (v.equity   - WeightUnit * t.equity)
    + tw.abroad   * (v.abroad   - WeightUnit * t.abroad)
    + tw.fx       * (v.fx       - WeightUnit * t.fx)
    + tw.illiquid * (v.illiquid - WeightUnit * t.illiquid)

\* v is scaled by WeightUnit, t is in whole percents
Deviation(v, t, tw) ==
      tw.equity   * Abs(v.equity   - WeightUnit * t.equity)
    + tw.abroad   * Abs(v.abroad   - WeightUnit * t.abroad)
    + tw.fx       * Abs(v.fx       - WeightUnit * t.fx)
    + tw.illiquid * Abs(v.illiquid - WeightUnit * t.illiquid)

\* fault: the uploaded scores are ignored, every provider gets the default
SvcGetDefaultOnly(smap, p, dflt) == dflt

\* smap.get(p, dflt)
SvcGet(smap, p, dflt) == IF p \in DOMAIN smap THEN smap[p] ELSE dflt

RECURSIVE SvcFrom(_, _, _, _, _)
SvcFrom(provs, ws, smap, dflt, i) ==
    IF i > Len(ws) \/ i > Len(provs) THEN 0
    ELSE ws[i] * SvcGet(smap, provs[i], dflt) + SvcFrom(provs, ws, smap, dflt, i + 1)

Svc(provs, ws, smap, dflt) == SvcFrom(provs, ws, smap, dflt, 1)

\* dev - sharpe_w * sharpe - service_w * (svc / 100.0), scaled by 10000:
\* dev and svc come scaled by 100, sharpe by 1000
Score(dev, sharpe, sv, sw, vw) == 100 * dev - sw * (10 * sharpe) - vw * sv

----------------------------------------------------------------------------
(* compute: enumeration of the candidate pool *)

\* fault: "sc <= best['score']", so the last of several equal scores is kept
ImprovesOrTies(sc, best) == best = <<>> \/ sc <= best[1].score

\* best is None (the empty sequence) or holds one candidate
Improves(sc, best) == best = <<>> \/ sc < best[1].score

\* the dict built for one subset and one weight vector
Candidate(fs, ws) ==
    LET v   == Blend(fs, ws)
        dev == Deviation(v, target, target_weights)
        sv  == Svc([i \in 1..Len(fs) |-> fs[i].provider], ws, svc_map, dflt_svc)
    IN  [funds |-> fs, weights |-> ws, vals |-> v, deviation |-> dev,
         svc |-> sv, score |-> Score(dev, v.sharpe, sv, sharpe_w, service_w)]

\* n == 1: svc is read from the map directly, weight vector [1.0]
SingleCandidate(f) ==
    LET v   == Blend(<<f>>, <<WeightUnit>>)
        dev == Deviation(v, target, target_weights)
        sv  == WeightUnit * SvcGet(svc_map, f.provider, dflt_svc)
    IN  [funds |-> <<f>>, weights |-> <<WeightUnit>>, vals |-> v,
         deviation |-> dev, svc |-> sv,
         score |-> Score(dev, v.sharpe, sv, sharpe_w, service_w)]

\* itertools.combinations(range(from, m + 1), k): increasing index tuples in
\* lexicographic order
RECURSIVE combinations(_, _, _)
combinations(m, k, from) ==
    IF k = 0 THEN << <<>> >>
    ELSE IF from > m THEN <<>>
    ELSE LET rest == combinations(m, k - 1, from + 1)
         IN  [i \in 1..Len(rest) |-> <<from>> \o rest[i]]
             \o combinations(m, k, from + 1)

\* fault: range(0, 100), the grid stops at 0.99
gridWithoutOne == [i \in 1..(GridPoints2 - 1) |-> i - 1]

\* grid = [i / 100.0 for i in range(0, 101)]
grid == [i \in 1..GridPoints2 |-> i - 1]

\* the weight vectors [w1, w2] the n == 2 branch scores, in loop order
PairWeights == [i \in 1..Len(grid) |-> <<grid[i], WeightUnit - grid[i]>>]

\* fault: the provider filter is left out
PairEligibleAny(f1, f2) == TRUE

PairEligible(f1, f2) == ~(same_prov_only /\ f1.provider # f2.provider)

\* grid1 = [round(i * step, 3) for i in range(int(1 / step) + 1)], step = 0.05
grid1 == [i \in 1..(WeightUnit \div GridStep3 + 1) |-> (i - 1) * GridStep3]

\* fault: the test "w3 < -1e-9" is left out
W3RejectedAboveOnly(w3) == w3 > WeightUnit

\* if w3 < -1e-9 or w3 > 1.0 + 1e-9: continue
W3Rejected(w3) == w3 < 0 \/ w3 > WeightUnit

\* max(0.0, min(1.0, w3))
Clamp(w3) == Max(0, Min(WeightUnit, w3))

\* "for w1 in grid1: for w2 in grid1: w3 = round(1.0 - w1 - w2, 3)", in loop order
TripleGrid ==
    [k \in 1..(Len(grid1) * Len(grid1)) |->
        LET w1 == grid1[((k - 1) \div Len(grid1)) + 1]
            w2 == grid1[((k - 1) % Len(grid1)) + 1]
        IN  <<w1, w2, WeightUnit - w1 - w2>>]

NotRejected(w) == ~W3Rejected(w[3])

\* the weight vectors [w1, w2, w3] the n == 3 branch scores, in loop order
TripleWeights ==
    LET kept == SelectSeq(TripleGrid, NotRejected)
    IN  [k \in 1..Len(kept) |-> <<kept[k][1], kept[k][2], Clamp(kept[k][3])>>]

\* the body of the weight loops for the weight vectors ws[lo..hi], in loop
\* order, entered with best: score the blend, keep it if it improves on best.
\* The range is halved, and the first half evaluated before the second is
\* entered, only to keep the evaluation shallow.
RECURSIVE WeightLoop(_, _, _, _, _)
WeightLoop(fs, ws, lo, hi, best) ==
    IF lo > hi THEN best
    ELSE IF lo = hi
    THEN LET c == Candidate(fs, ws[lo])
         IN  IF Improves(c.score, best) THEN <<c>> ELSE best
    ELSE LET mid   == (lo + hi) \div 2
             first == WeightLoop(fs, ws, lo, mid, best)
         IN  IF first = <<>>
             THEN WeightLoop(fs, ws, mid + 1, hi, <<>>)
             ELSE WeightLoop(fs, ws, mid + 1, hi, first)

\* fault: only the first two providers are compared
TripleEligibleFirstTwo(f1, f2, f3) == ~(same_prov_only /\ f1.provider # f2.provider)

TripleEligible(f1, f2, f3) ==
    ~(same_prov_only /\ ~(f1.provider = f2.provider /\ f2.provider = f3.provider))

\* best = None
NoBest == <<>>

\* fault: "candidates.append(best)" inside the weight loop, so the running best
\* is appended after every grid point
PairBestEveryPoint(f1, f2) ==
    IF ~(same_prov_only /\ f1.provider # f2.provider)
    THEN [i \in 1..Len(PairWeights) |->
             WeightLoop(<<f1, f2>>, PairWeights, 1, i, <<>>)[1]]
    ELSE <<>>

\* one pass of "for f1, f2 in itertools.combinations(funds, 2)" up to
\* "if best: candidates.append(best)": what the pair appends
PairBest(f1, f2) ==
    IF PairEligible(f1, f2)
    THEN WeightLoop(<<f1, f2>>, PairWeights, 1, Len(PairWeights), NoBest)
    ELSE <<>>

\* the same for "for f1, f2, f3 in itertools.combinations(funds, 3)"
TripleBest(f1, f2, f3) ==
    IF TripleEligible(f1, f2, f3)
    THEN WeightLoop(<<f1, f2, f3>>, TripleWeights, 1, Len(TripleWeights), NoBest)
    ELSE <<>>

\* concatenation of the sequences parts[k], parts[k + 1], ...
RECURSIVE Concat(_, _)
Concat(parts, k) ==
    IF k > Len(parts) THEN <<>> ELSE parts[k] \o Concat(parts, k + 1)

\* the pool of the n == 2 branch: what each pair appends, in enumeration order
PairPool ==
    LET subsets == combinations(Len(funds), 2, 1)
    IN  Concat([k \in 1..Len(subsets) |->
                    PairBest(funds[subsets[k][1]], funds[subsets[k][2]])], 1)

\* the pool of the n == 3 branch
TriplePool ==
    LET subsets == combinations(Len(funds), 3, 1)
    IN  Concat([k \in 1..Len(subsets) |->
                    TripleBest(funds[subsets[k][1]], funds[subsets[k][2]],
                               funds[subsets[k][3]])], 1)

----------------------------------------------------------------------------
(* compute: sort and diversified selection *)

SortKey(c) == c.score

\* fault: an unstable sort, c goes before the elements of equal key
InsertSortedBeforeEqual(sorted, c) ==
    LET k == Cardinality({i \in 1..Len(sorted) : c.score > sorted[i].score})
    IN  SubSeq(sorted, 1, k) \o <<c>> \o SubSeq(sorted, k + 1, Len(sorted))

\* position of c in a sorted list: after every element whose key is not greater
InsertSorted(sorted, c) ==
    LET k == Cardinality({i \in 1..Len(sorted) : SortKey(sorted[i]) <= SortKey(c)})
    IN  SubSeq(sorted, 1, k) \o <<c>> \o SubSeq(sorted, k + 1, Len(sorted))

\* candidates.sort(key=lambda c: c['score']): stable, ascending
RECURSIVE SortFrom(_, _, _)
SortFrom(cs, i, sorted) ==
    IF i > Len(cs) THEN sorted ELSE SortFrom(cs, i + 1, InsertSorted(sorted, cs[i]))

Sort(cs) == SortFrom(cs, 1, <<>>)

prov_set(c) == {c.funds[i].provider : i \in 1..Len(c.funds)}

names_set(c) == {c.funds[i].name : i \in 1..Len(c.funds)}

\* fault: the first loop tests the names only
StrictSkipsNamesOnly(c, sel) == sel.used_names \cap names_set(c) # {}

\* the two "continue" tests of the first loop
StrictSkips(c, sel) ==
    \/ sel.used_names \cap names_set(c) # {}
    \/ ~same_prov_only /\ sel.used_prov \cap prov_set(c) # {}

\* the first loop over candidates, from position i on;
\* sel = [chosen, used_prov, used_names]
RECURSIVE StrictLoop(_, _)
StrictLoop(i, sel) ==
    IF i > Len(candidates) THEN sel
    ELSE LET c == candidates[i]
         IN  IF StrictSkips(c, sel) THEN StrictLoop(i + 1, sel)
             ELSE LET next == [chosen     |-> Append(sel.chosen, c),
                               used_prov  |-> sel.used_prov \cup prov_set(c),
                               used_names |-> sel.used_names \cup names_set(c)]
                  IN  IF Len(next.chosen) = PickLimit THEN next
                      ELSE StrictLoop(i + 1, next)

\* fault: the second loop tests the names only (no "if c in chosen")
RelaxedSkipsNamesOnly(c, sel) == sel.used_names \cap names_set(c) # {}

\* fault: the second loop tests "c in chosen" only, not the names
RelaxedSkipsChosenOnly(c, sel) == \E j \in 1..Len(sel.chosen) : sel.chosen[j] = c

\* fault: the second loop keeps the provider test of the first
RelaxedSkipsProviders(c, sel) ==
    \/ \E j \in 1..Len(sel.chosen) : sel.chosen[j] = c
    \/ sel.used_names \cap names_set(c) # {}
    \/ ~same_prov_only /\ sel.used_prov \cap prov_set(c) # {}

\* the two "continue" tests of the second loop
RelaxedSkips(c, sel) ==
    \/ \E j \in 1..Len(sel.chosen) : sel.chosen[j] = c
    \/ sel.used_names \cap names_set(c) # {}

\* the second loop over candidates, from position i on
RECURSIVE RelaxedLoop(_, _)
RelaxedLoop(i, sel) ==
    IF i > Len(candidates) THEN sel
    ELSE LET c == candidates[i]
         IN  IF RelaxedSkips(c, sel) THEN RelaxedLoop(i + 1, sel)
             ELSE LET next == [chosen     |-> Append(sel.chosen, c),
                               used_prov  |-> sel.used_prov,
                               used_names |-> sel.used_names \cup names_set(c)]
                  IN  IF Len(next.chosen) = PickLimit THEN next
                      ELSE RelaxedLoop(i + 1, next)

\* candidates[:3]
Top(cs) == SubSeq(cs, 1, Min(PickLimit, Len(cs)))

----------------------------------------------------------------------------
(* The two messages; the empty string is the empty sequence *)

InsufficientMsg(need, have) == <<"at least", need, "funds are needed; there are only", have>>

NoCombinationsMsg == <<"no valid combinations were found">>

NoMsg == <<>>

----------------------------------------------------------------------------
(* The arguments of a call *)

\* The funds a loader can deliver: the provider is derived from the name, so
\* funds of one name have one provider; the same name can come from two sheets.
FundList ==
    << Fund("s1", "X",  "A", 50, 50, 20,  5, 10),
       Fund("s1", "Y",  "B", 30, 70, 40, 10,  8),
       Fund("s1", "A2", "A", 45, 55, 30,  8,  9),
       Fund("s1", "B2", "B", 35, 60, 25,  6, 11),
       Fund("s1", "C1", "C", 40, 65, 35,  7,  7),
       Fund("s1", "D1", "D", 60, 40, 10, 12, 12),
       Fund("s2", "X",  "A", 48, 52, 22,  6, 10) >>

Reverse(s) == [i \in 1..Len(s) |-> s[Len(s) + 1 - i]]

\* the funds of s at the positions of ix, in the order of s
RECURSIVE Select(_, _, _)
Select(s, ix, i) ==
    IF i > Len(s) THEN <<>>
    ELSE (IF i \in ix THEN <<s[i]>> ELSE <<>>) \o Select(s, ix, i + 1)

\* catalogs of at most MaxFunds funds, listed in sheet order or in the reverse
Catalogs ==
    {Select(order, ix, 1) :
        order \in {FundList, Reverse(FundList)},
        ix \in {x \in SUBSET (1..Len(FundList)) : Cardinality(x) <= MaxFunds}}

Profile(equity, abroad, fx, illiquid) ==
    [equity |-> equity, abroad |-> abroad, fx |-> fx, illiquid |-> illiquid]

Targets == {Profile(40, 60, 30, 7), Profile(55, 45, 15, 10)}

\* what the user prefers: importance of each metric, of sharpe and of service,
\* with the service scores uploaded (none, or scores for two of the providers)
Preference(tw, sw, vw, smap) ==
    [target_weights |-> tw, sharpe_w |-> sw, service_w |-> vw, svc_map |-> smap]

Preferences ==
    {Preference(Profile(1, 1, 1, 1), 0, 0, [p \in {} |-> 0]),
     Preference(Profile(2, 1, 0, 1), 2, 4,
                [p \in {"A", "B"} |-> IF p = "A" THEN 80 ELSE 60])}

DefaultService == 70

----------------------------------------------------------------------------
(* compute as a state machine *)

Init ==
    /\ funds \in Catalogs
    /\ target \in Targets
    /\ \E p \in Preferences :
           /\ target_weights = p.target_weights
           /\ sharpe_w = p.sharpe_w
           /\ service_w = p.service_w
           /\ svc_map = p.svc_map
    /\ dflt_svc = DefaultService
    /\ same_prov_only \in BOOLEAN
    /\ n \in 1..3
    /\ pc = "start"
    /\ candidates = <<>>
    /\ chosen = <<>>
    /\ used_prov = {}
    /\ used_names = {}
    /\ result = <<>>
    /\ message = NoMsg

\* A workbook in which different weight vectors give one blend: "M" lies midway
\* between "L" and "H" in every metric (its provider has no uploaded service
\* score, and the default 70 lies midway between 80 and 60), and "L" is listed
\* on two sheets with the same figures.
TieFundList ==
    << Fund("s1", "L", "A", 50, 50, 20, 6, 10),
       Fund("s1", "H", "B", 30, 70, 40, 8,  8),
       Fund("s1", "M", "C", 40, 60, 30, 7,  9),
       Fund("s2", "L", "A", 50, 50, 20, 6, 10) >>

TieCatalogs ==
    {Select(order, ix, 1) :
        order \in {TieFundList, Reverse(TieFundList)},
        ix \in SUBSET (1..Len(TieFundList))}

\* a call on one of these catalogs
InitTies ==
    /\ funds \in TieCatalogs
    /\ target \in Targets
    /\ \E p \in Preferences :
           /\ target_weights = p.target_weights
           /\ sharpe_w = p.sharpe_w
           /\ service_w = p.service_w
           /\ svc_map = p.svc_map
    /\ dflt_svc = DefaultService
    /\ same_prov_only \in BOOLEAN
    /\ n \in 1..3
    /\ pc = "start"
    /\ candidates = <<>>
    /\ chosen = <<>>
    /\ used_prov = {}
    /\ used_names = {}
    /\ result = <<>>
    /\ message = NoMsg

\* fault: the size check is off by one
TooFewOffByOne(fs, k) == Len(fs) < k - 1

TooFew(fs, k) == Len(fs) < k

\* if len(funds) < n: return [], "..."
CheckSize ==
    /\ pc = "start"
    /\ IF TooFew(funds, n)
       THEN /\ result' = <<>>
            /\ message' = InsufficientMsg(n, Len(funds))
            /\ pc' = "done"
       ELSE /\ pc' = "enumerate"
            /\ UNCHANGED returned
    /\ UNCHANGED <<args, locals>>

\* if n == 1: one candidate per fund
SingleFunds ==
    /\ pc = "enumerate"
    /\ n = 1
    /\ candidates' = [i \in 1..Len(funds) |-> SingleCandidate(funds[i])]
    /\ pc' = "sort"
    /\ UNCHANGED <<args, chosen, used_prov, used_names, returned>>

\* elif n == 2: best weight split of every eligible pair
PairSearch ==
    /\ pc = "enumerate"
    /\ n = 2
    /\ candidates' = PairPool
    /\ pc' = "sort"
    /\ UNCHANGED <<args, chosen, used_prov, used_names, returned>>

\* else: best weight split of every eligible triple
TripleSearch ==
    /\ pc = "enumerate"
    /\ n \notin {1, 2}
    /\ candidates' = TriplePool
    /\ pc' = "sort"
    /\ UNCHANGED <<args, chosen, used_prov, used_names, returned>>

\* if not candidates: return [], "..."  /  candidates.sort(...)
SortCandidates ==
    /\ pc = "sort"
    /\ IF candidates = <<>>
       THEN /\ result' = <<>>
            /\ message' = NoCombinationsMsg
            /\ pc' = "done"
            /\ UNCHANGED candidates
       ELSE /\ candidates' = Sort(candidates)
            /\ pc' = "strict"
            /\ UNCHANGED returned
    /\ UNCHANGED <<args, chosen, used_prov, used_names>>

\* the first loop: unique names, and unique providers unless same_prov_only
StrictPass ==
    /\ pc = "strict"
    /\ LET sel == StrictLoop(1, [chosen |-> chosen, used_prov |-> used_prov,
                                 used_names |-> used_names])
       IN  /\ chosen' = sel.chosen
           /\ used_prov' = sel.used_prov
           /\ used_names' = sel.used_names
    /\ pc' = "relaxed"
    /\ UNCHANGED <<args, candidates, returned>>

\* if len(chosen) < 3: the second loop, unique names only
RelaxedPass ==
    /\ pc = "relaxed"
    /\ IF Len(chosen) < PickLimit
       THEN LET sel == RelaxedLoop(1, [chosen |-> chosen, used_prov |-> used_prov,
                                       used_names |-> used_names])
            IN  /\ chosen' = sel.chosen
                /\ used_prov' = sel.used_prov
                /\ used_names' = sel.used_names
       ELSE UNCHANGED <<chosen, used_prov, used_names>>
    /\ pc' = "fallback"
    /\ UNCHANGED <<args, candidates, returned>>

\* if not chosen: chosen = candidates[:3]  /  return chosen, ""
Return ==
    /\ pc = "fallback"
    /\ chosen' = IF chosen = <<>> THEN Top(candidates) ELSE chosen
    /\ result' = chosen'
    /\ message' = NoMsg
    /\ pc' = "done"
    /\ UNCHANGED <<args, candidates, used_prov, used_names>>

Next ==
    \/ CheckSize
    \/ SingleFunds
    \/ PairSearch
    \/ TripleSearch
    \/ SortCandidates
    \/ StrictPass
    \/ RelaxedPass
    \/ Return

Spec == Init /\ [][Next]_vars

SpecTies == InitTies /\ [][Next]_vars

----------------------------------------------------------------------------
(* Vocabulary of the properties *)

Returned == pc = "done"

\* the pool has been built (and, from "strict" on, sorted)
PoolBuilt == pc \in {"sort", "strict", "relaxed", "fallback", "done"}

PoolSorted == pc \in {"strict", "relaxed", "fallback", "done"}

Disjoint(a, b) == a \cap b = {}

\* the index tuples of the k-subsets of the catalog positions
IndexSubsets(k) == {ix \in [1..k -> 1..Len(funds)] : \A i \in 1..(k - 1) : ix[i] < ix[i + 1]}

FundsAt(ix) == [i \in 1..Len(ix) |-> funds[ix[i]]]

OneProvider(fs) == \A i, j \in 1..Len(fs) : fs[i].provider = fs[j].provider

\* position of the first candidate of the sorted pool equal to c
PoolPosition(c) == CHOOSE k \in 1..Len(candidates) :
                       /\ candidates[k] = c
                       /\ \A j \in 1..(k - 1) : candidates[j] # c

\* what the first loop selects from the sorted pool
StrictChosen ==
    StrictLoop(1, [chosen |-> <<>>, used_prov |-> {}, used_names |-> {}]).chosen

----------------------------------------------------------------------------
(* C1 *)

\* C1: on return exactly one of the two values is populated: a non-empty list
\* of at most 3 candidates with the empty message, or an empty list with a
\* non-empty message; never both empty, never both populated.
C1_ExactlyOnePopulated ==
    Returned =>
        \/ Len(result) \in 1..3 /\ Len(message) = 0
        \/ Len(result) = 0 /\ Len(message) > 0

C1_Witness == Returned /\ Len(result) = 3 /\ Len(message) = 0

----------------------------------------------------------------------------
(* C2 *)

\* C2: with fewer than n funds in the catalog, compute returns the empty list
\* and the non-empty "insufficient funds" message straight from the size check:
\* the call never reaches the enumeration and never builds a candidate.
C2_InsufficientBeforeEnumeration ==
    Len(funds) < n =>
        /\ pc \in {"start", "done"}
        /\ candidates = <<>>
        /\ Returned =>
              /\ result = <<>>
              /\ message = InsufficientMsg(n, Len(funds))
              /\ Len(message) > 0

C2_Witness == Returned /\ Len(funds) = 1 /\ n = 2

----------------------------------------------------------------------------
(* C3 *)

\* C3: with at least n funds, when the enumeration yields no candidate (n = 2
\* or n = 3 with same_prov_only and no n funds of one provider) compute returns
\* the empty list with the "no valid combinations" message, which differs from
\* every "insufficient funds" message.
C3_NoValidCombinations ==
    Returned /\ Len(funds) >= n =>
        /\ (n \in {2, 3} /\ same_prov_only
              /\ \A ix \in IndexSubsets(n) : ~OneProvider(FundsAt(ix)))
           => candidates = <<>>
        /\ candidates = <<>> =>
              /\ result = <<>>
              /\ message = NoCombinationsMsg
              /\ Len(message) > 0
              /\ \A k \in 1..3, have \in 0..Len(funds) : message # InsufficientMsg(k, have)

C3_Witness ==
    /\ Returned /\ n = 2 /\ same_prov_only /\ Len(funds) >= 2
    /\ \A ix \in IndexSubsets(2) : ~OneProvider(FundsAt(ix))
    /\ message = NoCombinationsMsg

----------------------------------------------------------------------------
(* C4 *)

\* C4 as stated: whenever the pool has at least 3 candidates, exactly 3 are
\* returned.
C4_ThreeWheneverPoolHasThree ==
    Returned /\ Len(candidates) >= 3 => Len(result) = 3

\* C4 amended: at most 3 candidates are returned, never more than the pool
\* holds, and fewer than 3 are returned only when every candidate of the pool
\* shares a fund name with a returned candidate.
C4_AtMostThreeFewerOnlyByNames ==
    Returned /\ candidates # <<>> =>
        /\ Len(result) \in 1..3
        /\ Len(result) <= Len(candidates)
        /\ Len(result) < 3 =>
              \A k \in 1..Len(candidates) : \E j \in 1..Len(result) :
                  ~Disjoint(names_set(candidates[k]), names_set(result[j]))

C4_Witness == Returned /\ Len(candidates) >= 3 /\ Len(result) = 2

----------------------------------------------------------------------------
(* C5 *)

\* C5: no fund name occurs in two candidates returned by one call.
C5_NoNameInTwoReturned ==
    Returned =>
        \A i, j \in 1..Len(result) :
            i # j => Disjoint(names_set(result[i]), names_set(result[j]))

\* three candidates returned, the last of them by the second loop
C5_Witness ==
    Returned /\ n = 2 /\ Len(result) = 3 /\ Len(StrictChosen) < 3

----------------------------------------------------------------------------
(* C6 *)

\* C6: the returned list is in rank order: scores do not decrease along it, and
\* each returned candidate stands in the sorted pool before the next one.
C6_RankOrder ==
    Returned =>
        \A i \in 1..(Len(result) - 1) :
            /\ result[i].score <= result[i + 1].score
            /\ PoolPosition(result[i]) < PoolPosition(result[i + 1])

----------------------------------------------------------------------------
(* C7 *)

\* three candidates of the pool with pairwise disjoint names and providers
DiverseTripleExists ==
    \E a, b, c \in 1..Len(candidates) :
        /\ a < b /\ b < c
        /\ \A x, y \in {a, b, c} :
              x # y => /\ Disjoint(names_set(candidates[x]), names_set(candidates[y]))
                       /\ Disjoint(prov_set(candidates[x]), prov_set(candidates[y]))

\* C7: with same_prov_only off, when the pool holds three candidates with
\* pairwise disjoint names and providers, three candidates are returned and
\* their provider sets are pairwise disjoint.
C7_DiverseWhenPossible ==
    Returned /\ ~same_prov_only /\ DiverseTripleExists =>
        /\ Len(result) = 3
        /\ \A i, j \in 1..3 :
              i # j => Disjoint(prov_set(result[i]), prov_set(result[j]))

----------------------------------------------------------------------------
(* C8 *)

\* C8: for n = 2 and n = 3, with same_prov_only every candidate of the pool
\* and every returned candidate has funds of one provider; without it every
\* pair (triple) of distinct catalog positions has its candidate in the pool.
C8_ProviderFilter ==
    PoolBuilt /\ n \in {2, 3} =>
        IF same_prov_only
        THEN /\ \A k \in 1..Len(candidates) : OneProvider(candidates[k].funds)
             /\ \A k \in 1..Len(result) : OneProvider(result[k].funds)
        ELSE /\ \A ix \in IndexSubsets(n) :
                   \E k \in 1..Len(candidates) : candidates[k].funds = FundsAt(ix)
             /\ Len(candidates) = Cardinality(IndexSubsets(n))

\* same_prov_only on: a same-provider triple is returned from a catalog that
\* also has funds of other providers
C8_Witness ==
    /\ Returned /\ n = 3 /\ same_prov_only /\ Len(result) >= 1
    /\ ~OneProvider(funds)

----------------------------------------------------------------------------
(* C9 *)

EligiblePairs ==
    {ix \in IndexSubsets(2) : ~same_prov_only \/ OneProvider(FundsAt(ix))}

\* C9: for n = 2 the pool holds exactly one candidate per eligible pair, so at
\* most C(F, 2) candidates, and at least one when some pair is eligible.
C9_OneCandidatePerPair ==
    PoolBuilt /\ n = 2 =>
        /\ Len(candidates) <= (Len(funds) * (Len(funds) - 1)) \div 2
        /\ Len(candidates) = Cardinality(EligiblePairs)
        /\ \A ix \in IndexSubsets(2) :
              Cardinality({k \in 1..Len(candidates) : candidates[k].funds = FundsAt(ix)})
                  = IF ix \in EligiblePairs THEN 1 ELSE 0
        /\ EligiblePairs # {} => Len(candidates) >= 1

\* the filter removes some pairs and keeps others
C9_Witness ==
    /\ PoolBuilt /\ n = 2 /\ same_prov_only
    /\ Len(candidates) >= 2
    /\ Len(candidates) < Cardinality(IndexSubsets(2))

----------------------------------------------------------------------------
(* C10 *)

ScenarioA ==
    /\ funds = << Fund("s1", "X", "A", 50, 50, 20, 5, 10),
                  Fund("s1", "Y", "B", 30, 70, 40, 10, 8) >>
    /\ target = Profile(40, 60, 30, 7)
    /\ target_weights = Profile(1, 1, 1, 1)
    /\ sharpe_w = 0
    /\ service_w = 0
    /\ ~same_prov_only
    /\ n = 2

\* the deviation of the X/Y blend at w1 hundredths of X, in hundredths of a
\* percentage point
ScenarioADeviation(w1) ==
    Abs(50 * w1 + 30 * (100 - w1) - 4000) + Abs(50 * w1 + 70 * (100 - w1) - 6000)
    + Abs(20 * w1 + 40 * (100 - w1) - 3000) + Abs(5 * w1 + 10 * (100 - w1) - 700)

\* C10: in scenario A compute returns one candidate, the X/Y blend, with w1
\* within 0.01 of 0.50 and the least deviation of the 101 grid points, which is
\* at most 0.5.
C10_ScenarioA ==
    Returned /\ ScenarioA =>
        /\ Len(result) = 1
        /\ Len(message) = 0
        /\ result[1].funds = funds
        /\ result[1].weights[1] \in 49..51
        /\ result[1].weights[2] = 100 - result[1].weights[1]
        /\ result[1].deviation = ScenarioADeviation(result[1].weights[1])
        /\ \A w1 \in 0..100 : result[1].deviation <= ScenarioADeviation(w1)
        /\ result[1].deviation <= 50

C10_Witness == Returned /\ ScenarioA /\ Len(result) = 1

----------------------------------------------------------------------------
(* C11 *)

RECURSIVE SumFrom(_, _)
SumFrom(ws, i) == IF i > Len(ws) THEN 0 ELSE ws[i] + SumFrom(ws, i + 1)

\* the weight vectors the n == 3 loops score with w1 and w2 as given
EvaluatedAt(w1, w2) ==
    {k \in 1..Len(TripleWeights) : TripleWeights[k][1] = w1 /\ TripleWeights[k][2] = w2}

\* C11: every candidate of the pool has n funds and n weights, every weight
\* lies between 0 and 1 and the weights sum to 1. For n = 3, w1 and w2 range
\* over the 21 multiples of 0.05 in [0, 1]; a grid point is scored (once)
\* exactly when w1 + w2 <= 1, with w3 = 1 - w1 - w2, and the clamp of w3 leaves
\* every scored weight vector as it was.
C11_WeightsSumToOne ==
    /\ PoolBuilt =>
          \A k \in 1..Len(candidates) :
              /\ Len(candidates[k].funds) = n
              /\ Len(candidates[k].weights) = n
              /\ \A i \in 1..n : candidates[k].weights[i] \in 0..WeightUnit
              /\ SumFrom(candidates[k].weights, 1) = WeightUnit
    /\ (pc = "sort" /\ n = 3) =>
          /\ Len(grid1) = 21
          /\ \A i \in 1..21 : grid1[i] = 5 * (i - 1)
          /\ \A i, j \in 1..21 :
                Cardinality(EvaluatedAt(grid1[i], grid1[j]))
                    = IF grid1[i] + grid1[j] <= WeightUnit THEN 1 ELSE 0
          /\ \A k \in 1..Len(TripleWeights) :
                /\ TripleWeights[k][3] = WeightUnit - TripleWeights[k][1] - TripleWeights[k][2]
                /\ SumFrom(TripleWeights[k], 1) = WeightUnit
          /\ \A k \in 1..Len(TripleGrid) :
                NotRejected(TripleGrid[k]) => Clamp(TripleGrid[k][3]) = TripleGrid[k][3]

\* a triple whose kept weight vector lies on the edge w1 + w2 = 1, where the
\* clamp meets w3 = 0
C11_Witness ==
    /\ PoolBuilt /\ n = 3
    /\ \E k \in 1..Len(candidates) :
          /\ candidates[k].weights[3] = 0
          /\ candidates[k].weights[1] > 0
          /\ candidates[k].weights[2] > 0

----------------------------------------------------------------------------
(* C12 *)

\* the weight vectors scored for a subset of n funds
GridOf(k) == IF k = 2 THEN PairWeights ELSE TripleWeights

\* weight vector a comes before b in the order of the loops: lower w1, then
\* lower w2
LoopBefore(a, b) == a[1] < b[1] \/ (a[1] = b[1] /\ a[2] < b[2])

\* C12: for n = 2 and n = 3 the candidate kept for a pair (triple) is the
\* candidate of one of its grid points, its score is less than or equal to the
\* score at every grid point of that pair (triple), and every grid point with
\* the same score comes later in the loops (higher w1, or the same w1 and a
\* higher w2).
C12_FirstMinimumKept ==
    (pc = "sort" /\ n \in {2, 3}) =>
        \A k \in 1..Len(candidates) :
            LET c == candidates[k]
            IN  /\ \E q \in 1..Len(GridOf(n)) : GridOf(n)[q] = c.weights
                /\ c = Candidate(c.funds, c.weights)
                /\ \A q \in 1..Len(GridOf(n)) :
                      LET w  == GridOf(n)[q]
                          sc == Candidate(c.funds, w).score
                      IN  /\ c.score <= sc
                          /\ c.score = sc => (w = c.weights \/ LoopBefore(c.weights, w))

\* a triple of three different funds whose least score is reached at more than
\* one grid point
C12_Witness ==
    /\ pc = "sort" /\ n = 3
    /\ \E k \in 1..Len(candidates) : \E q \in 1..Len(TripleWeights) :
          /\ Cardinality(names_set(candidates[k])) = 3
          /\ TripleWeights[q] # candidates[k].weights
          /\ Candidate(candidates[k].funds, TripleWeights[q]).score = candidates[k].score

----------------------------------------------------------------------------
(* C13 *)

\* position, in the pool as enumerated, of the first candidate of least score
FirstLeast(cs) ==
    CHOOSE k \in 1..Len(cs) :
        /\ \A j \in 1..Len(cs) : cs[k].score <= cs[j].score
        /\ \A j \in 1..(k - 1) : cs[j].score > cs[k].score

\* C13: a non-empty pool is sorted so that its first candidate is the first
\* enumerated candidate of least score; the first loop accepts that candidate
\* first, so the selection is non-empty after the first loop, the first
\* returned candidate has the least score of the pool, and the fallback
\* "chosen = candidates[:3]" never changes the selection.
C13_BestFirstFallbackDead ==
    /\ [][(pc = "sort" /\ candidates # <<>>) =>
              /\ candidates'[1] = candidates[FirstLeast(candidates)]
              /\ Len(candidates') = Len(candidates)]_vars
    /\ []((pc \in {"relaxed", "fallback"} \/ (Returned /\ candidates # <<>>)) =>
              /\ chosen # <<>>
              /\ chosen[1] = candidates[1]
              /\ \A k \in 1..Len(candidates) : chosen[1].score <= candidates[k].score)
    /\ [][pc = "fallback" => (chosen' = chosen /\ result' = chosen)]_vars

\* two different candidates share the least score of the pool, and the call
\* has returned
C13_Witness ==
    /\ Returned /\ Len(candidates) >= 2
    /\ candidates[1].score = candidates[2].score
    /\ candidates[1] # candidates[2]
    /\ result[1] = candidates[1]

----------------------------------------------------------------------------
(* C14 *)

\* c shares no fund name with the first m picks and, unless same_prov_only is
\* on, no provider either
Compatible(c, picks, m) ==
    \A j \in 1..m :
        /\ Disjoint(names_set(c), names_set(picks[j]))
        /\ ~same_prov_only => Disjoint(prov_set(c), prov_set(picks[j]))

\* C14: after the first loop, with same_prov_only off the picks have pairwise
\* disjoint provider sets; each pick is the earliest candidate of the sorted
\* pool that shares no name and (same_prov_only off) no provider with the
\* picks before it, providers playing no part when same_prov_only is on; and
\* the loop stops short of 3 picks only when no candidate is left that
\* qualifies. The second loop adds picks only when the first ended with fewer
\* than 3, keeps the picks of the first in place, and two returned candidates
\* share a provider (same_prov_only off) only when the later one is a pick of
\* the second loop.
C14_StrictPicksThenRelaxed ==
    /\ [](pc = "relaxed" =>
            /\ Len(chosen) <= 3
            /\ ~same_prov_only =>
                  \A i, j \in 1..Len(chosen) :
                      i # j => Disjoint(prov_set(chosen[i]), prov_set(chosen[j]))
            /\ \A i \in 1..Len(chosen) :
                  \E k \in 1..Len(candidates) :
                      /\ candidates[k] = chosen[i]
                      /\ Compatible(candidates[k], chosen, i - 1)
                      /\ \A j \in 1..(k - 1) : ~Compatible(candidates[j], chosen, i - 1)
            /\ Len(chosen) < 3 =>
                  \A k \in 1..Len(candidates) :
                      ~Compatible(candidates[k], chosen, Len(chosen)))
    /\ [][pc = "relaxed" =>
              /\ Len(chosen') >= Len(chosen)
              /\ SubSeq(chosen', 1, Len(chosen)) = chosen
              /\ Len(chosen') > Len(chosen) => Len(chosen) < 3
              /\ ~same_prov_only =>
                    \A i, j \in 1..Len(chosen') :
                        (i < j /\ ~Disjoint(prov_set(chosen'[i]), prov_set(chosen'[j])))
                            => j > Len(chosen)]_vars
    /\ [](Returned /\ candidates # <<>> => result = chosen)

\* same_prov_only off: three candidates returned, two of them sharing a
\* provider
C14_Witness ==
    /\ Returned /\ ~same_prov_only /\ Len(result) = 3
    /\ \E i, j \in 1..3 :
          i < j /\ ~Disjoint(prov_set(result[i]), prov_set(result[j]))

----------------------------------------------------------------------------
(* C15 *)

\* C15: for n = 1 the pool, as enumerated, holds one candidate per catalog
\* fund, in catalog order: the fund alone with the weight vector [1.0], the
\* fund's own equity, abroad, fx, illiquid and sharpe as its profile, and as
\* its service score the uploaded score of the fund's provider, or the default
\* score when the provider has none.
C15_SingleFundPool ==
    (pc = "sort" /\ n = 1) =>
        /\ Len(candidates) = Len(funds)
        /\ \A i \in 1..Len(funds) :
              LET c == candidates[i]
                  f == funds[i]
              IN  /\ c.funds = <<f>>
                  /\ c.weights = <<WeightUnit>>
                  /\ c.vals = [equity   |-> WeightUnit * f.equity,
                               abroad   |-> WeightUnit * f.abroad,
                               fx       |-> WeightUnit * f.fx,
                               illiquid |-> WeightUnit * f.illiquid,
                               sharpe   |-> WeightUnit * f.sharpe]
                  /\ c.svc = WeightUnit * (IF f.provider \in DOMAIN svc_map
                                           THEN svc_map[f.provider]
                                           ELSE dflt_svc)

\* a pool with a fund whose provider has an uploaded score different from the
\* default and a fund whose provider has none
C15_Witness ==
    /\ pc = "sort" /\ n = 1
    /\ \E i, j \in 1..Len(candidates) :
          /\ candidates[i].funds[1].provider \in DOMAIN svc_map
          /\ candidates[i].svc # WeightUnit * dflt_svc
          /\ candidates[j].funds[1].provider \notin DOMAIN svc_map
          /\ candidates[j].svc = WeightUnit * dflt_svc

----------------------------------------------------------------------------
(* C16 *)

\* the score compute gives fund f alone (n = 1) under the arguments of the call
SingleScore(f) == SingleCandidate(f).score

\* C16: under one target, importances, sharpe weight, service weight and
\* service scores, the pair blend at w1 = 1 (w1 = 0) scores what its first
\* (second) fund scores alone, so the score kept for a pair is never greater
\* than the single-fund score of either of its funds. Hence with
\* same_prov_only off and at least 2 funds the first candidate returned for
\* n = 2 scores no more than every fund alone, while the first candidate
\* returned for n = 1 scores exactly the least single-fund score.
C16_PairNoWorseThanSingle ==
    /\ (PoolBuilt /\ n = 2) =>
          \A k \in 1..Len(candidates) :
              LET f1 == candidates[k].funds[1]
                  f2 == candidates[k].funds[2]
              IN  /\ Candidate(<<f1, f2>>, <<WeightUnit, 0>>).score = SingleScore(f1)
                  /\ Candidate(<<f1, f2>>, <<0, WeightUnit>>).score = SingleScore(f2)
                  /\ candidates[k].score <= SingleScore(f1)
                  /\ candidates[k].score <= SingleScore(f2)
    /\ (Returned /\ n = 2 /\ ~same_prov_only /\ Len(funds) >= 2) =>
          /\ result # <<>>
          /\ \A i \in 1..Len(funds) : result[1].score <= SingleScore(funds[i])
    /\ (Returned /\ n = 1 /\ Len(funds) >= 1) =>
          /\ result # <<>>
          /\ \E i \in 1..Len(funds) : result[1].score = SingleScore(funds[i])
          /\ \A i \in 1..Len(funds) : result[1].score <= SingleScore(funds[i])

\* n = 2 has returned: one pair was kept at the end point w1 = 1, where it
\* scores what its first fund scores alone, and the best pair beats every
\* single fund
C16_Witness ==
    /\ Returned /\ n = 2 /\ ~same_prov_only /\ Len(funds) >= 2
    /\ \E k \in 1..Len(candidates) :
          /\ candidates[k].weights = <<WeightUnit, 0>>
          /\ candidates[k].score = SingleScore(candidates[k].funds[1])
    /\ \A i \in 1..Len(funds) : result[1].score < SingleScore(funds[i])

====
